---- MODULE Spec2Model ----
(***************************************************************************)
(* The connection hub of web-keyboard (src/server/websocket.go): the Hub   *)
(* loop Run, the per-connection readPump and writePump goroutines, the     *)
(* handler handleWebSocket that creates a Connection and hands it to the   *)
(* Hub, and Shutdown.  Channels are modelled with Go's semantics: a        *)
(* buffered channel is a bounded FIFO, a send on a full channel suspends   *)
(* the sender, a send on (or a second close of) a closed channel panics,   *)
(* a receive on a closed channel drains the buffer and then reports !ok.   *)
(* A panic runs the deferred functions of its goroutine and then ends the  *)
(* process: Run has none, readPump has its unregister send and its Close.  *)
(* The unbuffered register and unregister channels are rendezvous between  *)
(* the sender's position and the Hub's select.                             *)
(***************************************************************************)
EXTENDS Integers, Sequences, FiniteSets, TLC

\* ------------------------------------------------------------------ bounds
\* Number of Connection records created by handleWebSocket over a run.
MaxConns == 2
\* Capacity of a record's outbound queue (make(chan []byte, 256) in the code).
QueueCap == 1
\* Number of events the environment supplies over a run: upgraded requests,
\* inbound frames and broadcast payloads together.
MaxEvents == 3

\* Number of WebSocket objects the page creates over a run.
MaxSockets == 6

\* The records: those of a run of Spec, and one more for WideSpec.
Conns == 1..(MaxConns + 1)
\* The nil *Connection.
NIL == 0

\* ------------------------------------------------------- payloads, frames
\* json.Marshal(map[string]string{"status": "connected"})
welcomeMsg == [status |-> "connected"]
\* json.Marshal(map[string]string{"status": "disconnected", "reason": ...})
closeMsg == [status |-> "disconnected", reason |-> "Another device connected"]
\* json.Marshal(map[string]string{"error": "Failed to press key: " + key})
errorMsg(key) == [error |-> "Failed to press key: " \o key]
\* The payload of a broadcast event (opaque bytes).
broadcastMsg == [raw |-> "broadcast"]

\* Inbound text frames a client may send.
FrameKey5 == "{\"key\":\"5\",\"type\":\"key\",\"timestamp\":1}"
FrameKeyX == "{\"key\":\"x\",\"type\":\"key\",\"timestamp\":2}"
FramePing == "{\"key\":\"5\",\"type\":\"ping\"}"
FrameBad == "{\"key\":"
Frames == {FrameKey5, FrameKeyX, FramePing, FrameBad}

\* json.Unmarshal(message, &keyMsg) into KeyMessage{Key, Type}: err is TRUE
\* when the frame is not valid JSON for the struct; unknown fields (timestamp)
\* are ignored.
Unmarshal(message) ==
    CASE message = FrameKey5 -> [err |-> FALSE, Key |-> "5", Type |-> "key"]
      [] message = FrameKeyX -> [err |-> FALSE, Key |-> "x", Type |-> "key"]
      [] message = FramePing -> [err |-> FALSE, Key |-> "5", Type |-> "ping"]
      [] OTHER -> [err |-> TRUE, Key |-> "", Type |-> ""]

\* ------------------------------------------------------------------ state
VARIABLES
    connections,  \* WebSocketServer.connections: the keys of the map
    hub,          \* position of Run: "select", "evict", "welcome"
    hubConn,      \* Run's local `connection` while a register is processed
    existingConn, \* Run's local `existingConn` (NIL when none)
    nreg,         \* records handed to the Hub so far (they are 1..nreg)
    queue,        \* Connection.send: the buffered payloads, per record
    closes,       \* number of close(Connection.send) executed, per record
    conn,         \* Connection.conn: "open", or "closed" by conn.Close()
    rpc,          \* position of readPump, per record ("punreg", "pclosing":
                  \* in its deferred function while panicking)
    wpc,          \* position of writePump, per record
    frames,       \* frames returned by ReadMessage so far, per record
    pressed,      \* keys passed to input.PressKey so far, per record
    welcomed,     \* sends of welcomeMsg on Connection.send so far, per record
    nbroadcast,   \* broadcast events processed so far
    shutdown,     \* Shutdown has run
    limit,        \* what the environment supplies in this run: records, events
    panic         \* "none", or the runtime panic that ended the process

\* The page's NumpadKeyboard object (src/static/script.js).
VARIABLES
    sockets,           \* readyState of every WebSocket created, in order of
                       \* creation; this.ws is the last one
    connected,         \* this.connected
    connecting,        \* this.connecting
    reconnectAttempts, \* this.reconnectAttempts
    wasReplaced,       \* this.wasReplaced
    timers,            \* setTimeout callbacks of attemptReconnect not yet run
    noticed,           \* sockets on which the eviction notice was received
    status,            \* text of the connection-status element
    lastEvent          \* the event whose handler ran last

\* The state of the server.
serverVars == <<connections, hub, hubConn, existingConn, nreg, queue, closes,
                conn, rpc, wpc, frames, pressed, welcomed, nbroadcast,
                shutdown, limit, panic>>
\* The state of the page.
clientVars == <<sockets, connected, connecting, reconnectAttempts,
                wasReplaced, timers, noticed, status, lastEvent>>

vars == <<serverVars, clientVars>>

hubVars == <<connections, hub, hubConn, existingConn>>
histVars == <<frames, pressed, nbroadcast, shutdown, limit, clientVars>>

\* The payloads that travel on Connection.send.
Payloads == {welcomeMsg, closeMsg, broadcastMsg} \cup
            {errorMsg(Unmarshal(f).Key) : f \in Frames}

\* The shape of the state: Connection{conn, send}, WebSocketServer{connections}
\* and the positions of Run and of the two pumps of each record.
TypeOK ==
    /\ connections \subseteq Conns
    /\ hub \in {"select", "evict", "welcome"}
    /\ hubConn \in Conns \cup {NIL}
    /\ existingConn \in Conns \cup {NIL}
    /\ nreg \in 0..limit.conns
    /\ \A c \in Conns :
         /\ Len(queue[c]) <= QueueCap
         /\ \A i \in 1..Len(queue[c]) : queue[c][i] \in Payloads
         /\ closes[c] \in 0..2
         /\ conn[c] \in {"open", "closed"}
         /\ rpc[c] \in {"idle", "read", "send", "unreg", "closing", "done",
                       "punreg", "pclosing"}
         /\ wpc[c] \in {"idle", "select", "done"}
         /\ rpc[c] = "idle" <=> c > nreg
         /\ wpc[c] = "idle" <=> c > nreg
    /\ shutdown \in BOOLEAN
    /\ panic \in {"none", "send on closed channel", "close of closed channel"}

\* NewWebSocketServer, SetInputSimulator and `go wsServer.Run()` have run; no
\* request has been upgraded yet.
InitServer ==
    /\ connections = {}
    /\ hub = "select"
    /\ hubConn = NIL
    /\ existingConn = NIL
    /\ nreg = 0
    /\ queue = [c \in Conns |-> <<>>]
    /\ closes = [c \in Conns |-> 0]
    /\ conn = [c \in Conns |-> "open"]
    /\ rpc = [c \in Conns |-> "idle"]
    /\ wpc = [c \in Conns |-> "idle"]
    /\ frames = [c \in Conns |-> <<>>]
    /\ pressed = [c \in Conns |-> <<>>]
    /\ welcomed = [c \in Conns |-> 0]
    /\ nbroadcast = 0
    /\ shutdown = FALSE
    /\ panic = "none"

\* this.maxReconnectAttempts
maxReconnectAttempts == 5

\* The page after `new NumpadKeyboard()`: the constructor's fields, then init()
\* has called connectWebSocket(), which created the first socket.
InitClient ==
    /\ sockets = <<"connecting">>
    /\ connected = FALSE
    /\ connecting = TRUE
    /\ reconnectAttempts = 0
    /\ wasReplaced = FALSE
    /\ timers = 0
    /\ noticed = {}
    /\ status = "initial"
    /\ lastEvent = "load"

\* A run with MaxConns clients and MaxEvents events.
Init ==
    /\ InitServer
    /\ limit = [conns |-> MaxConns, events |-> MaxEvents]
    /\ InitClient
\* A run with one more client and one more event.
InitWide ==
    /\ InitServer
    /\ limit = [conns |-> MaxConns + 1, events |-> MaxEvents + 1]
    /\ InitClient

\* The process is alive (no goroutine has panicked).
Running == panic = "none"

\* A send can complete at once: the channel is open and its buffer has room.
HasRoom(c) == closes[c] = 0 /\ Len(queue[c]) < QueueCap
\* The channel is open and its buffer is full: a plain send suspends, a
\* select with default takes the default.
IsFull(c) == closes[c] = 0 /\ Len(queue[c]) >= QueueCap

\* WebSocketServer.getExistingConnection: the first key the map iteration
\* yields (any member: Go's iteration order is unspecified), nil when empty.
getExistingConnection == IF connections = {} THEN {NIL} ELSE connections

RECURSIVE SumLen(_, _)
SumLen(f, n) == IF n = 0 THEN 0 ELSE Len(f[n]) + SumLen(f, n - 1)
\* Frames read so far by all read pumps.
NumFrames == SumLen(frames, MaxConns + 1)
\* Events the environment has supplied so far.
NumEvents == nreg + NumFrames + nbroadcast

\* ------------------------------------------------------------------- Run
\* case connection := <-s.register, up to the select on existingConn.send.
\* handleWebSocket's send on the unbuffered register channel completes here,
\* and the handler goes on to start the two pumps of the record.
RunRegister ==
    /\ Running
    /\ hub = "select"
    /\ nreg < limit.conns
    /\ NumEvents < limit.events
    /\ ~shutdown
    /\ LET c == nreg + 1 IN
       /\ nreg' = c
       /\ hubConn' = c
       /\ rpc' = [rpc EXCEPT ![c] = "read"]
       /\ wpc' = [wpc EXCEPT ![c] = "select"]
       /\ IF Cardinality(connections) >= 1
          THEN \E e \in getExistingConnection :
                 /\ existingConn' = e
                 /\ hub' = "evict"
                 /\ connections' = connections
                 /\ IF closes[e] > 0
                    THEN /\ panic' = "send on closed channel"
                         /\ queue' = queue
                    ELSE /\ panic' = panic
                         /\ IF Len(queue[e]) < QueueCap
                            THEN queue' = [queue EXCEPT ![e] = Append(@, closeMsg)]
                            ELSE queue' = queue
          ELSE /\ existingConn' = NIL
               /\ hub' = "welcome"
               /\ connections' = connections \cup {c}
               /\ UNCHANGED <<queue, panic>>
    /\ UNCHANGED <<closes, conn, welcomed, histVars>>

\* Faulty variant of RunEvict: the incumbent's transport is left open.
RunEvictNoClose ==
    /\ Running
    /\ hub = "evict"
    /\ connections' = connections \cup {hubConn}
    /\ hub' = "welcome"
    /\ UNCHANGED <<hubConn, existingConn, nreg, queue, closes, conn, rpc, wpc,
                   welcomed, histVars, panic>>

\* After the grace sleep (or the default branch): existingConn.conn.Close(),
\* then s.connections[connection] = true.
RunEvict ==
    /\ Running
    /\ hub = "evict"
    /\ conn' = [conn EXCEPT ![existingConn] = "closed"]
    /\ connections' = connections \cup {hubConn}
    /\ hub' = "welcome"
    /\ UNCHANGED <<hubConn, existingConn, nreg, queue, closes, rpc, wpc,
                   welcomed, histVars, panic>>

\* connection.send <- welcomeMsg (a plain send: it waits for room), then
\* s.mutex.Unlock() and back to the select (the locals go out of scope).
RunWelcome ==
    /\ Running
    /\ hub = "welcome"
    /\ IF closes[hubConn] > 0
       THEN /\ panic' = "send on closed channel"
            /\ UNCHANGED <<hub, hubConn, existingConn, queue, welcomed>>
       ELSE /\ Len(queue[hubConn]) < QueueCap
            /\ queue' = [queue EXCEPT ![hubConn] = Append(@, welcomeMsg)]
            /\ welcomed' = [welcomed EXCEPT ![hubConn] = @ + 1]
            /\ hub' = "select"
            /\ hubConn' = NIL
            /\ existingConn' = NIL
            /\ panic' = panic
    /\ UNCHANGED <<connections, nreg, closes, conn, rpc, wpc, histVars>>

\* Faulty variant of RunUnregister: no membership check before the delete
\* and the close.
RunUnregisterNoCheck(c) ==
    /\ Running
    /\ hub = "select"
    /\ rpc[c] \in {"unreg", "punreg"}
    /\ rpc' = [rpc EXCEPT ![c] = IF @ = "unreg" THEN "closing" ELSE "pclosing"]
    /\ connections' = connections \ {c}
    /\ closes' = [closes EXCEPT ![c] = @ + 1]
    /\ panic' = IF closes[c] > 0 THEN "close of closed channel" ELSE panic
    /\ UNCHANGED <<hub, hubConn, existingConn, nreg, queue, conn, wpc,
                   welcomed, histVars>>

\* Faulty variant of RunUnregister: the unregister is taken while Run is
\* still inside a register.
RunUnregisterEarly(c) ==
    /\ Running
    /\ rpc[c] \in {"unreg", "punreg"}
    /\ rpc' = [rpc EXCEPT ![c] = IF @ = "unreg" THEN "closing" ELSE "pclosing"]
    /\ IF c \in connections
       THEN /\ connections' = connections \ {c}
            /\ closes' = [closes EXCEPT ![c] = @ + 1]
            /\ panic' = IF closes[c] > 0 THEN "close of closed channel" ELSE panic
       ELSE UNCHANGED <<connections, closes, panic>>
    /\ UNCHANGED <<hub, hubConn, existingConn, nreg, queue, conn, wpc,
                   welcomed, histVars>>

\* case connection := <-s.unregister.  readPump's deferred send on the
\* unbuffered unregister channel completes here; the pump goes on to
\* connection.conn.Close().
RunUnregister(c) ==
    /\ Running
    /\ hub = "select"
    /\ rpc[c] \in {"unreg", "punreg"}
    /\ rpc' = [rpc EXCEPT ![c] = IF @ = "unreg" THEN "closing" ELSE "pclosing"]
    /\ IF c \in connections
       THEN /\ connections' = connections \ {c}
            /\ closes' = [closes EXCEPT ![c] = @ + 1]
            /\ panic' = IF closes[c] > 0 THEN "close of closed channel" ELSE panic
       ELSE UNCHANGED <<connections, closes, panic>>
    /\ UNCHANGED <<hub, hubConn, existingConn, nreg, queue, conn, wpc,
                   welcomed, histVars>>

\* Faulty variant of RunBroadcast: a member whose queue is full has its
\* queue closed but stays in the map.
RunBroadcastKeep ==
    /\ Running
    /\ hub = "select"
    /\ NumEvents < limit.events
    /\ ~shutdown
    /\ nbroadcast' = nbroadcast + 1
    /\ LET sent == {c \in connections : Len(queue[c]) < QueueCap}
           dropped == connections \ sent
       IN /\ panic' = IF \E c \in connections : closes[c] > 0
                      THEN "send on closed channel" ELSE panic
          /\ queue' = [c \in Conns |->
                         IF c \in sent THEN Append(queue[c], broadcastMsg)
                                       ELSE queue[c]]
          /\ closes' = [c \in Conns |->
                         IF c \in dropped THEN closes[c] + 1 ELSE closes[c]]
          /\ connections' = connections
    /\ UNCHANGED <<hub, hubConn, existingConn, nreg, conn, rpc, wpc, welcomed,
                   frames, pressed, shutdown, limit, clientVars>>

\* case message := <-s.broadcast: a select with default on every member's
\* queue; a member whose queue is full is closed and deleted.
RunBroadcast ==
    /\ Running
    /\ hub = "select"
    /\ NumEvents < limit.events
    /\ ~shutdown
    /\ nbroadcast' = nbroadcast + 1
    /\ LET sent == {c \in connections : Len(queue[c]) < QueueCap}
           dropped == connections \ sent
       IN /\ panic' = IF \E c \in connections : closes[c] > 0
                      THEN "send on closed channel" ELSE panic
          /\ queue' = [c \in Conns |->
                         IF c \in sent THEN Append(queue[c], broadcastMsg)
                                       ELSE queue[c]]
          /\ closes' = [c \in Conns |->
                         IF c \in dropped THEN closes[c] + 1 ELSE closes[c]]
          /\ connections' = sent
    /\ UNCHANGED <<hub, hubConn, existingConn, nreg, conn, rpc, wpc, welcomed,
                   frames, pressed, shutdown, limit, clientVars>>

\* WebSocketServer.Shutdown, called by main after the signal: under the mutex
\* (so not while Run is inside a register), every member has its queue
\* closed, its transport closed, and is deleted.
Shutdown ==
    /\ Running
    /\ hub = "select"
    /\ ~shutdown
    /\ shutdown' = TRUE
    /\ panic' = IF \E c \in connections : closes[c] > 0
                THEN "close of closed channel" ELSE panic
    /\ closes' = [c \in Conns |->
                    IF c \in connections THEN closes[c] + 1 ELSE closes[c]]
    /\ conn' = [c \in Conns |->
                    IF c \in connections THEN "closed" ELSE conn[c]]
    /\ connections' = {}
    /\ UNCHANGED <<hub, hubConn, existingConn, nreg, queue, rpc, wpc, welcomed,
                   frames, pressed, nbroadcast, limit, clientVars>>

\* -------------------------------------------------------------- readPump
\* Faulty variant of readPumpRead: a decode error breaks out of the loop.
readPumpReadStrict(c) ==
    /\ Running
    /\ rpc[c] = "read"
    /\ conn[c] = "open"
    /\ NumEvents < limit.events
    /\ \E message \in Frames, ok \in BOOLEAN :
         LET keyMsg == Unmarshal(message) IN
         /\ frames' = [frames EXCEPT ![c] = Append(@, message)]
         /\ IF keyMsg.err
            THEN /\ pressed' = pressed
                 /\ rpc' = [rpc EXCEPT ![c] = "unreg"]
            ELSE IF keyMsg.Type = "key"
                 THEN /\ pressed' = [pressed EXCEPT ![c] = Append(@, keyMsg.Key)]
                      /\ rpc' = [rpc EXCEPT ![c] = IF ok THEN "read" ELSE "send"]
                 ELSE UNCHANGED <<pressed, rpc>>
    /\ UNCHANGED <<hubVars, nreg, queue, closes, conn, wpc, welcomed,
                   nbroadcast, shutdown, limit, clientVars, panic>>

\* Faulty variant of readPumpRead: the message type is not looked at.
readPumpReadAnyType(c) ==
    /\ Running
    /\ rpc[c] = "read"
    /\ conn[c] = "open"
    /\ NumEvents < limit.events
    /\ \E message \in Frames, ok \in BOOLEAN :
         LET keyMsg == Unmarshal(message) IN
         /\ frames' = [frames EXCEPT ![c] = Append(@, message)]
         /\ IF keyMsg.err
            THEN UNCHANGED <<pressed, rpc>>
            ELSE /\ pressed' = [pressed EXCEPT ![c] = Append(@, keyMsg.Key)]
                 /\ rpc' = [rpc EXCEPT ![c] = IF ok THEN "read" ELSE "send"]
    /\ UNCHANGED <<hubVars, nreg, queue, closes, conn, wpc, welcomed,
                   nbroadcast, shutdown, limit, clientVars, panic>>

\* One turn of the loop with a successful ReadMessage: the frame is decoded;
\* a decode error continues; a "key" message calls input.PressKey, whose
\* result `ok` is the sink's; on failure the pump goes on to send errorMsg.
readPumpRead(c) ==
    /\ Running
    /\ rpc[c] = "read"
    /\ conn[c] = "open"
    /\ NumEvents < limit.events
    /\ \E message \in Frames, ok \in BOOLEAN :
         LET keyMsg == Unmarshal(message) IN
         /\ frames' = [frames EXCEPT ![c] = Append(@, message)]
         /\ IF keyMsg.err
            THEN UNCHANGED <<pressed, rpc>>
            ELSE IF keyMsg.Type = "key"
                 THEN /\ pressed' = [pressed EXCEPT ![c] = Append(@, keyMsg.Key)]
                      /\ rpc' = [rpc EXCEPT ![c] = IF ok THEN "read" ELSE "send"]
                 ELSE UNCHANGED <<pressed, rpc>>
    /\ UNCHANGED <<hubVars, nreg, queue, closes, conn, wpc, welcomed,
                   nbroadcast, shutdown, limit, clientVars, panic>>

\* Faulty variant of readPumpSend: after the error payload is queued the pump
\* leaves its loop.
readPumpSendBreak(c) ==
    /\ Running
    /\ rpc[c] = "send"
    /\ IF closes[c] > 0
       THEN /\ rpc' = [rpc EXCEPT ![c] = "punreg"]
            /\ UNCHANGED <<queue>>
       ELSE /\ Len(queue[c]) < QueueCap
            /\ queue' = [queue EXCEPT ![c] =
                   Append(@, errorMsg(Unmarshal(frames[c][Len(frames[c])]).Key))]
            /\ rpc' = [rpc EXCEPT ![c] = "unreg"]
    /\ panic' = panic
    /\ UNCHANGED <<hubVars, nreg, closes, conn, wpc, welcomed, histVars>>

\* connection.send <- errorMsg: a plain send.  It completes when the queue
\* has room, is suspended while the queue is full, and panics when the queue
\* is (or, while suspended, gets) closed: the goroutine then runs its
\* deferred function before the process ends.
readPumpSend(c) ==
    /\ Running
    /\ rpc[c] = "send"
    /\ IF closes[c] > 0
       THEN /\ rpc' = [rpc EXCEPT ![c] = "punreg"]
            /\ UNCHANGED <<queue>>
       ELSE /\ Len(queue[c]) < QueueCap
            /\ queue' = [queue EXCEPT ![c] =
                   Append(@, errorMsg(Unmarshal(frames[c][Len(frames[c])]).Key))]
            /\ rpc' = [rpc EXCEPT ![c] = "read"]
    /\ panic' = panic
    /\ UNCHANGED <<hubVars, nreg, closes, conn, wpc, welcomed, histVars>>

\* ReadMessage returns an error because the transport was closed on this
\* side: break, into the deferred function.
readPumpReadErr(c) ==
    /\ Running
    /\ rpc[c] = "read"
    /\ conn[c] = "closed"
    /\ rpc' = [rpc EXCEPT ![c] = "unreg"]
    /\ UNCHANGED <<hubVars, nreg, queue, closes, conn, wpc, welcomed,
                   histVars, panic>>

\* ReadMessage returns an error on a transport that is open on this side:
\* the peer closed it, the network broke, or the 60 s read deadline expired.
readPumpDeadline(c) ==
    /\ Running
    /\ rpc[c] = "read"
    /\ conn[c] = "open"
    /\ rpc' = [rpc EXCEPT ![c] = "unreg"]
    /\ UNCHANGED <<hubVars, nreg, queue, closes, conn, wpc, welcomed,
                   histVars, panic>>

\* The deferred function after its unregister send: connection.conn.Close().
\* When it ran because of a panic, the panic now ends the process and the
\* pump never returns.
readPumpClose(c) ==
    /\ Running
    /\ rpc[c] \in {"closing", "pclosing"}
    /\ rpc' = [rpc EXCEPT ![c] = IF @ = "closing" THEN "done" ELSE @]
    /\ conn' = [conn EXCEPT ![c] = "closed"]
    /\ panic' = IF rpc[c] = "pclosing" THEN "send on closed channel" ELSE panic
    /\ UNCHANGED <<hubVars, nreg, queue, closes, wpc, welcomed, histVars>>

\* ------------------------------------------------------------- writePump
\* case message, ok := <-connection.send with ok (a closed channel still
\* yields what it buffered), and the WriteMessage of that payload: it fails
\* when the transport is closed on this side, and may fail on an open one
\* (`fails`: the peer is gone); on failure the pump returns and its deferred
\* function closes the transport.
writePumpWrite(c) ==
    /\ Running
    /\ wpc[c] = "select"
    /\ queue[c] # <<>>
    /\ queue' = [queue EXCEPT ![c] = Tail(@)]
    /\ \E fails \in BOOLEAN :
         IF conn[c] = "closed" \/ fails
         THEN /\ wpc' = [wpc EXCEPT ![c] = "done"]
              /\ conn' = [conn EXCEPT ![c] = "closed"]
         ELSE UNCHANGED <<wpc, conn>>
    /\ UNCHANGED <<hubVars, nreg, closes, rpc, welcomed, histVars, panic>>

\* The same case with !ok (closed and drained): the close frame is written,
\* the pump returns and its deferred function closes the transport.
writePumpClosed(c) ==
    /\ Running
    /\ wpc[c] = "select"
    /\ queue[c] = <<>>
    /\ closes[c] > 0
    /\ wpc' = [wpc EXCEPT ![c] = "done"]
    /\ conn' = [conn EXCEPT ![c] = "closed"]
    /\ UNCHANGED <<hubVars, nreg, queue, closes, rpc, welcomed, histVars,
                   panic>>

\* case <-ticker.C with a failing ping write (transport closed on this side,
\* peer gone, or the 10 s write deadline): the pump returns and closes the
\* transport.  A ping that succeeds changes nothing.
writePumpPing(c) ==
    /\ Running
    /\ wpc[c] = "select"
    /\ wpc' = [wpc EXCEPT ![c] = "done"]
    /\ conn' = [conn EXCEPT ![c] = "closed"]
    /\ UNCHANGED <<hubVars, nreg, queue, closes, rpc, welcomed, histVars,
                   panic>>

Next ==
    \/ RunRegister
    \/ RunEvict
    \/ RunWelcome
    \/ RunBroadcast
    \/ Shutdown
    \/ \E c \in Conns : RunUnregister(c)
    \/ \E c \in Conns : readPumpRead(c)
    \/ \E c \in Conns : readPumpSend(c)
    \/ \E c \in Conns : readPumpReadErr(c)
    \/ \E c \in Conns : readPumpDeadline(c)
    \/ \E c \in Conns : readPumpClose(c)
    \/ \E c \in Conns : writePumpWrite(c)
    \/ \E c \in Conns : writePumpClosed(c)
    \/ \E c \in Conns : writePumpPing(c)

Spec == Init /\ [][Next]_vars
\* The same server with three clients.
WideSpec == InitWide /\ [][Next]_vars

\* Scheduling: the Go scheduler runs every goroutine that can run, so each
\* step of the Hub and of the pumps that stays possible is eventually taken; a
\* select with several ready cases picks among them at random, so an
\* unregister that is ready again and again is eventually received.  What the
\* peers do (frames, silence, failing writes on an open transport), new
\* requests, broadcasts and Shutdown are not forced.
Fairness ==
    /\ WF_vars(RunEvict)
    /\ WF_vars(RunWelcome)
    /\ \A c \in Conns :
         /\ SF_vars(RunUnregister(c))
         /\ WF_vars(readPumpSend(c))
         /\ WF_vars(readPumpReadErr(c))
         /\ WF_vars(readPumpClose(c))
         /\ WF_vars(writePumpWrite(c))
         /\ WF_vars(writePumpClosed(c))
         /\ WF_vars(conn[c] = "closed" /\ writePumpPing(c))

FairSpec == Init /\ [][Next]_vars /\ Fairness

\* ------------------------------------------------------- the page (client)
\* A text frame with status "disconnected" and another reason.
otherCloseMsg == [status |-> "disconnected", reason |-> "Server closing"]
\* What arrives as event.data: the server's payloads; the bytes of a
\* broadcast are taken to be a text that is not JSON.
MessageData == {welcomeMsg, closeMsg, otherCloseMsg, errorMsg("5"), broadcastMsg}
\* JSON.parse(event.data): the object, or a thrown SyntaxError.
JSONparse(data) ==
    IF "raw" \in DOMAIN data
    THEN [threw |-> TRUE, value |-> data]
    ELSE [threw |-> FALSE, value |-> data]
\* message.f of a parsed object: undefined when the object has no such field.
Field(message, f) == IF f \in DOMAIN message THEN message[f] ELSE "undefined"

\* The sockets that are CONNECTING or OPEN.
LiveSockets == {i \in 1..Len(sockets) : sockets[i] \in {"connecting", "open"}}

\* connectWebSocket(): nothing while this.connecting, else a new socket.
\* (The URL is built from window.location, so `new WebSocket` does not throw.)
connectWebSocket ==
    IF connecting
    THEN UNCHANGED <<sockets, connecting>>
    ELSE /\ sockets' = Append(sockets, "connecting")
         /\ connecting' = TRUE

\* attemptReconnect(): one more attempt and a timer while fewer than
\* maxReconnectAttempts were made, else the final status.
attemptReconnect ==
    IF reconnectAttempts < maxReconnectAttempts
    THEN /\ reconnectAttempts' = reconnectAttempts + 1
         /\ timers' = timers + 1
         /\ status' = "Reconnecting"
    ELSE /\ status' = "Connection failed"
         /\ UNCHANGED <<reconnectAttempts, timers>>

\* Faulty variant of SocketOpen: the attempt counter is not reset.
SocketOpenNoReset(i) ==
    /\ i \in 1..Len(sockets)
    /\ sockets[i] = "connecting"
    /\ sockets' = [sockets EXCEPT ![i] = "open"]
    /\ connected' = TRUE
    /\ connecting' = FALSE
    /\ status' = "Connected"
    /\ lastEvent' = "open"
    /\ UNCHANGED <<reconnectAttempts, wasReplaced, timers, noticed, serverVars>>

\* this.ws.onopen of socket i.
SocketOpen(i) ==
    /\ i \in 1..Len(sockets)
    /\ sockets[i] = "connecting"
    /\ sockets' = [sockets EXCEPT ![i] = "open"]
    /\ connected' = TRUE
    /\ reconnectAttempts' = 0
    /\ connecting' = FALSE
    /\ status' = "Connected"
    /\ lastEvent' = "open"
    /\ UNCHANGED <<wasReplaced, timers, noticed, serverVars>>

\* this.ws.onmessage of socket i: handleWebSocketMessage(event).
SocketMessage(i) ==
    /\ i \in 1..Len(sockets)
    /\ sockets[i] = "open"
    /\ lastEvent' = "message"
    /\ \E data \in MessageData :
         LET parsed == JSONparse(data) IN
         IF parsed.threw
         THEN UNCHANGED <<status, wasReplaced, noticed>>
         ELSE LET message == parsed.value IN
              IF Field(message, "status") = "connected"
              THEN /\ status' = "Connected"
                   /\ UNCHANGED <<wasReplaced, noticed>>
              ELSE IF Field(message, "status") = "disconnected"
                   THEN /\ status' = "Disconnected"
                        /\ IF Field(message, "reason") = "Another device connected"
                           THEN /\ wasReplaced' = TRUE
                                /\ noticed' = noticed \cup {i}
                           ELSE UNCHANGED <<wasReplaced, noticed>>
                   ELSE UNCHANGED <<status, wasReplaced, noticed>>
    /\ UNCHANGED <<sockets, connected, connecting, reconnectAttempts, timers,
                   serverVars>>

\* Faulty variant of SocketClose: wasReplaced is not looked at.
SocketCloseAlwaysRetry(i) ==
    /\ i \in 1..Len(sockets)
    /\ sockets[i] \in {"connecting", "open"}
    /\ sockets' = [sockets EXCEPT ![i] = "closed"]
    /\ lastEvent' = "close"
    /\ \E error \in BOOLEAN :
         /\ sockets[i] = "connecting" => error
         /\ connecting' = IF error THEN FALSE ELSE connecting
    /\ connected' = FALSE
    /\ attemptReconnect
    /\ UNCHANGED <<wasReplaced, noticed, serverVars>>

\* The socket i is closed.  The browser sets readyState to CLOSED, fires
\* `error` when the connection failed (always so for a socket that never
\* opened) and then `close`, all in one task, so no other handler runs in
\* between: this.ws.onerror, then this.ws.onclose.
SocketClose(i) ==
    /\ i \in 1..Len(sockets)
    /\ sockets[i] \in {"connecting", "open"}
    /\ sockets' = [sockets EXCEPT ![i] = "closed"]
    /\ lastEvent' = "close"
    /\ \E error \in BOOLEAN :
         /\ sockets[i] = "connecting" => error
         /\ connecting' = IF error THEN FALSE ELSE connecting
    /\ connected' = FALSE
    /\ IF wasReplaced
       THEN /\ wasReplaced' = FALSE
            /\ status' = "Disconnected"
            /\ UNCHANGED <<reconnectAttempts, timers>>
       ELSE /\ attemptReconnect
            /\ UNCHANGED wasReplaced
    /\ UNCHANGED <<noticed, serverVars>>

\* The callback of attemptReconnect's setTimeout runs: connectWebSocket().
TimerFire ==
    /\ timers > 0
    /\ connecting \/ Len(sockets) < MaxSockets
    /\ timers' = timers - 1
    /\ connectWebSocket
    /\ lastEvent' = "timer"
    /\ UNCHANGED <<connected, reconnectAttempts, wasReplaced, noticed, status,
                   serverVars>>

\* Faulty variant of Focus: the attempt counter is not looked at.
FocusAnyCount ==
    /\ connected \/ connecting \/ Len(sockets) < MaxSockets
    /\ IF ~connected
       THEN connectWebSocket
       ELSE UNCHANGED <<sockets, connecting>>
    /\ lastEvent' = "focus"
    /\ UNCHANGED <<connected, reconnectAttempts, wasReplaced, timers, noticed,
                   status, serverVars>>

\* Faulty variant of Focus: this.connecting is not looked at.
FocusWhileConnecting ==
    /\ connected \/ reconnectAttempts # 0 \/ Len(sockets) < MaxSockets
    /\ IF ~connected /\ reconnectAttempts = 0
       THEN /\ sockets' = Append(sockets, "connecting")
            /\ connecting' = TRUE
       ELSE UNCHANGED <<sockets, connecting>>
    /\ lastEvent' = "focus"
    /\ UNCHANGED <<connected, reconnectAttempts, wasReplaced, timers, noticed,
                   status, serverVars>>

\* The window's focus listener.
Focus ==
    /\ connected \/ reconnectAttempts # 0 \/ connecting
          \/ Len(sockets) < MaxSockets
    /\ IF ~connected /\ reconnectAttempts = 0
       THEN connectWebSocket
       ELSE UNCHANGED <<sockets, connecting>>
    /\ lastEvent' = "focus"
    /\ UNCHANGED <<connected, reconnectAttempts, wasReplaced, timers, noticed,
                   status, serverVars>>

ClientNext ==
    \/ \E i \in 1..MaxSockets : SocketOpen(i)
    \/ \E i \in 1..MaxSockets : SocketMessage(i)
    \/ \E i \in 1..MaxSockets : SocketClose(i)
    \/ TimerFire
    \/ Focus

\* The page alone: the server's state does not move.
ClientSpec == Init /\ [][ClientNext]_vars

\* The shape of the page's state.
ClientTypeOK ==
    /\ Len(sockets) \in 1..MaxSockets
    /\ \A i \in 1..Len(sockets) : sockets[i] \in {"connecting", "open", "closed"}
    /\ connected \in BOOLEAN
    /\ connecting \in BOOLEAN
    /\ reconnectAttempts \in Nat
    /\ wasReplaced \in BOOLEAN
    /\ timers \in Nat
    /\ noticed \subseteq 1..Len(sockets)
    /\ status \in {"initial", "Connected", "Disconnected", "Reconnecting",
                    "Connection failed"}
    /\ lastEvent \in {"load", "open", "message", "close", "timer", "focus"}

\* ================================================================ claims
\* C1: each time Run has finished processing an event (it is back at its
\* select), the connections map holds at most one record.
C1_CapacityInvariant == hub = "select" => Cardinality(connections) <= 1

\* C2: between Hub events, no two admitted records (members of the active
\* set) both have an open transport.
C2_SingleActiveClient ==
    hub = "select" =>
        Cardinality({c \in connections : conn[c] = "open"}) <= 1

\* What C3 asks of the step that takes register(B) and of the step that
\* completes it.
C3_Step ==
    /\ (/\ hub = "select" /\ hub' = "evict"
        /\ connections = {existingConn'}
        /\ conn[existingConn'] = "open")
       => /\ conn'[existingConn'] = "open"
          /\ HasRoom(existingConn') =>
                queue'[existingConn'] = Append(queue[existingConn'], closeMsg)
    /\ (/\ hub = "welcome" /\ hub' = "select"
        /\ existingConn # NIL
        /\ connections \ {hubConn} = {existingConn})
       => /\ conn'[existingConn] = "closed"
          /\ hubConn \in connections'
          /\ welcomed'[hubConn] = 1
          /\ queue'[hubConn] = Append(queue[hubConn], welcomeMsg)
\* C3: eviction scenario.  When Run takes register(B) with the active set
\* exactly {A} and A's transport open, the notice is put on A's queue if it
\* has room, and A's transport is not yet closed at that point; when the
\* event completes, A's transport is closed, B is a member, and welcomeMsg
\* has been sent on B's queue exactly once.
C3_EvictionScenario == [][C3_Step]_vars
\* A (record 1) was alone and open, B (record 2) registered: A holds the
\* notice and is closed by the Hub (its pumps have not moved), B is welcomed.
C3_Witness ==
    /\ nreg = 2 /\ hub = "select"
    /\ connections = {1, 2}
    /\ queue[1] = <<closeMsg>> /\ conn[1] = "closed"
    /\ rpc[1] = "read" /\ wpc[1] = "select"
    /\ welcomed[2] = 1 /\ queue[2] = <<welcomeMsg>> /\ conn[2] = "open"

\* What C4 asks of every state, and of every unregister step.
C4_Inv ==
    /\ panic # "close of closed channel"
    /\ \A c \in Conns : closes[c] <= 1
    /\ \A c \in connections : closes[c] = 0
C4_Step ==
    \A c \in Conns :
        (/\ rpc[c] \in {"unreg", "punreg"}
         /\ rpc'[c] \in {"closing", "pclosing"}
         /\ c \notin connections)
        => UNCHANGED <<connections, queue, closes, conn>>
\* C4: every record's queue is closed at most once, every member of the
\* active set has an open queue, and an unregister for a record that is not
\* a member changes nothing of the set, the queues or the transports.
C4_UnregisterIdempotent == []C4_Inv /\ [][C4_Step]_vars
\* The only record was a member at Shutdown (which closed its queue and its
\* transport), and its unregister was processed afterwards.
C4_Witness ==
    /\ nreg = 1 /\ shutdown
    /\ rpc[1] = "closing" /\ wpc[1] = "select"
    /\ conn[1] = "closed" /\ closes[1] = 1
    /\ panic = "none"

\* What C5 asks of a broadcast step.
C5_Step ==
    nbroadcast' # nbroadcast =>
        /\ hub' = "select"
        /\ panic' = "none"
        /\ \A c \in Conns :
             IF c \in connections
             THEN IF Len(queue[c]) < QueueCap
                  THEN /\ queue'[c] = Append(queue[c], broadcastMsg)
                       /\ c \in connections'
                       /\ closes'[c] = 0
                  ELSE /\ queue'[c] = queue[c]
                       /\ c \notin connections'
                       /\ closes'[c] = 1
             ELSE /\ queue'[c] = queue[c]
                  /\ closes'[c] = closes[c]
                  /\ c \notin connections'
\* C5: a broadcast event appends the payload to the queue of every member
\* with room and keeps it in the set; it removes every member whose queue is
\* full and closes that queue once, leaving the queue's content alone;
\* records outside the set are untouched, and Run is back at its select.
C5_BroadcastDropAndEvict == [][C5_Step]_vars
\* Two members at the broadcast: one had a full queue and is gone with its
\* queue closed (its read pump never unregistered), the other got the payload.
C5_Witness ==
    \E c, d \in Conns :
        /\ c # d
        /\ nbroadcast = 1 /\ ~shutdown /\ panic = "none"
        /\ c \notin connections /\ closes[c] = 1 /\ rpc[c] = "read"
        /\ d \in connections /\ queue[d] = <<broadcastMsg>>

\* C6: for every record handed to the Hub, once its transport is closed or
\* its read has failed, eventually its unregister has been processed and the
\* record is out of the active set with its queue closed.  (A run in which
\* the process dies of a panic is not held against the claim.)
C6_TeardownLiveness ==
    \A c \in Conns :
        ((rpc[c] # "idle" /\ (conn[c] = "closed" \/ rpc[c] = "unreg"))
         ~> (\/ /\ rpc[c] \in {"closing", "pclosing", "done"}
                /\ c \notin connections
                /\ closes[c] >= 1
             \/ panic # "none"))

\* C7: the read pump is never suspended in its send of the error payload:
\* it is never at that send with the queue full.
C7_ErrorSendNeverBlocks ==
    \A c \in Conns : ~(rpc[c] = "send" /\ IsFull(c))

\* What C8 asks of the step in which the read pump leaves its send.
C8_Step ==
    \A c \in Conns :
        (rpc[c] = "send" /\ rpc'[c] # "send" /\ HasRoom(c))
        => /\ queue'[c] = Append(queue[c],
                 [error |-> "Failed to press key: "
                              \o pressed[c][Len(pressed[c])]])
           /\ rpc'[c] = "read"
           /\ conn'[c] = conn[c]
           /\ c \in connections <=> c \in connections'
           /\ panic' = "none"
\* C8: when the sink has failed for key k and the queue has room, the read
\* pump's send puts {"error":"Failed to press key: k"} on the queue and the
\* pump is back at reading: no unregister, no close of the transport, no
\* panic.
C8_SinkFailureKeepsSession == [][C8_Step]_vars
\* The error payload for key x is queued on a live member that reads on.
C8_Witness ==
    \E c \in connections :
        /\ queue[c] = <<[error |-> "Failed to press key: x"]>>
        /\ rpc[c] = "read" /\ conn[c] = "open" /\ wpc[c] = "select"

\* The frames that are not JSON, and the key of the well-formed key frames.
MalformedFrames == {FrameBad}
KeyFrames == {FrameKey5, FrameKeyX}
KeyOfFrame(f) == IF f = FrameKey5 THEN "5" ELSE "x"

\* What C9 asks of a step that reads a frame.
C9_Step ==
    \A c \in Conns :
        frames'[c] # frames[c] =>
            LET f == frames'[c][Len(frames'[c])] IN
            /\ f \in MalformedFrames =>
                 /\ rpc'[c] = "read"
                 /\ pressed' = pressed
                 /\ queue' = queue
            /\ (/\ frames[c] # <<>>
                /\ frames[c][Len(frames[c])] \in MalformedFrames
                /\ f \in KeyFrames)
               => pressed'[c] = Append(pressed[c], KeyOfFrame(f))
\* C9: reading a malformed frame leaves the read pump reading (no exit, no
\* unregister), calls the sink for nothing and queues nothing; a key frame
\* read right after a malformed one is pressed.
C9_MalformedInputSurvives == [][C9_Step]_vars
\* A malformed frame, then a key frame on the same record, which was pressed.
C9_Witness ==
    \E c \in Conns :
        /\ frames[c] = <<FrameBad, FrameKeyX>>
        /\ pressed[c] = <<"x">>

\* The keys of the key frames of a sequence of frames, in order.
RECURSIVE KeysOf(_)
KeysOf(fs) ==
    IF fs = <<>> THEN <<>>
    ELSE IF Head(fs) \in KeyFrames
         THEN <<KeyOfFrame(Head(fs))>> \o KeysOf(Tail(fs))
         ELSE KeysOf(Tail(fs))

\* C10: on every record, the keys passed to the sink are exactly the keys of
\* the key frames read, once each and in the order read.
C10_ExactlyOnceInjection ==
    \A c \in Conns : pressed[c] = KeysOf(frames[c])
\* Two key frames read on one record: two presses, in the order read.
C10_Witness ==
    \E c \in Conns :
        /\ frames[c] = <<FrameKeyX, FrameKey5>>
        /\ pressed[c] = <<"x", "5">>

\* A step in which a pump of record c uses Connection.conn: ReadMessage
\* returns (a frame or an error), the deferred Close of readPump runs,
\* writePump writes a payload, a ping or the close frame, or closes.
PumpTouchesTransport(c) ==
    \/ frames'[c] # frames[c]
    \/ rpc[c] = "read" /\ rpc'[c] = "unreg"
    \/ rpc[c] = "closing" /\ rpc'[c] = "done"
    \/ rpc[c] = "pclosing" /\ panic' # panic
    \/ Len(queue'[c]) < Len(queue[c])
    \/ wpc[c] = "select" /\ wpc'[c] = "done"
\* C11: a read pump or write pump uses a record's transport only while the
\* record is a member of the active set.
C11_PumpsOnlyWhileMember ==
    [][\A c \in Conns : PumpTouchesTransport(c) => c \in connections]_vars

\* C15: Run is never suspended in its send of welcomeMsg: it is never at
\* that send with the record's queue full.
C15_HubNeverBlocks == hub = "welcome" => ~IsFull(hubConn)

\* C16: no goroutine sends on a closed queue and no panic ends the process.
C16_NoSendOnClosedQueue ==
    /\ panic = "none"
    /\ \A c \in Conns : rpc[c] \notin {"punreg", "pclosing"}

\* Record c was in the map when Shutdown ran: its queue is closed although
\* no broadcast was processed and its unregister has not been received.
WasMemberAtShutdown(c) ==
    /\ shutdown /\ nbroadcast = 0
    /\ closes[c] >= 1
    /\ rpc[c] \in {"read", "send", "unreg", "punreg"}
\* C17: once Shutdown has run, the map is empty and every record that was
\* in it has its queue and its transport closed; and each such record's write
\* pump and read pump eventually return.
C17_ShutdownUnblocks ==
    /\ [](shutdown =>
            /\ connections = {}
            /\ \A c \in Conns :
                 WasMemberAtShutdown(c) => closes[c] >= 1 /\ conn[c] = "closed")
    /\ \A c \in Conns :
         WasMemberAtShutdown(c) ~> (wpc[c] = "done" /\ rpc[c] = "done")

\* What C18 asks of every step: the read pump arrives at its unregister send
\* only from its ReadMessage, with a read error; having submitted it, it
\* never submits again; a write pump that returns closes the transport and
\* moves nothing of the read pump.
C18_Step ==
    \A c \in Conns :
        /\ (rpc[c] \notin {"unreg", "punreg"} /\ rpc'[c] \in {"unreg", "punreg"})
           => (rpc[c] = "read" /\ rpc'[c] = "unreg" /\ frames'[c] = frames[c])
        /\ rpc[c] \in {"closing", "pclosing", "done"}
           => rpc'[c] \in {"closing", "pclosing", "done"}
        /\ (wpc[c] = "select" /\ wpc'[c] = "done")
           => (conn'[c] = "closed" /\ rpc'[c] = rpc[c])
\* C18: unregister(record) is submitted at most once per record, by its read
\* pump and only after a terminal read error; a returning write pump submits
\* no unregister and closes the transport.
C18_ConvergentTeardown == [][C18_Step]_vars

\* What C19 asks of every state and of every unregister step.
C19_Inv ==
    \A c \in connections : rpc[c] \notin {"closing", "pclosing", "done"}
C19_Step ==
    \A c \in Conns :
        (rpc[c] \in {"unreg", "punreg"} /\ rpc'[c] \in {"closing", "pclosing"})
        => /\ hub = "select" /\ hubConn # c
           /\ welcomed[c] = 1
           /\ c \notin connections => closes[c] >= 1
\* C19: Run takes unregister(record) only when register(record) has been
\* processed to its end (the record was added and welcomed), so an unregister
\* that finds the record absent finds it already removed, and no record
\* whose unregister was processed is in the map.
C19_RegisterBeforeUnregister == []C19_Inv /\ [][C19_Step]_vars
\* The second record's read failed before any frame and while its register
\* had an incumbent to evict; its unregister was processed after the welcome
\* (still queued) and removed it.
C19_Witness ==
    /\ nreg = 2 /\ hub = "select"
    /\ frames[2] = <<>> /\ rpc[2] = "closing"
    /\ welcomed[2] = 1 /\ queue[2] = <<welcomeMsg>> /\ wpc[2] = "select"
    /\ 2 \notin connections /\ closes[2] = 1

\* Socket i is closed by this step.
Closes(i) == i \in 1..Len(sockets) /\ sockets[i] # "closed" /\ sockets'[i] = "closed"

\* What C12 asks of the close of a socket that received the notice, and of
\* what follows it.
C12_Step ==
    /\ \A i \in 1..MaxSockets :
         (Closes(i) /\ i \in noticed)
         => /\ connected' = FALSE
            /\ status' = "Disconnected"
            /\ reconnectAttempts' = reconnectAttempts
            /\ timers' = timers /\ timers' = 0
            /\ Len(sockets') = Len(sockets)
    /\ (/\ Len(sockets) \in noticed
        /\ sockets[Len(sockets)] = "closed"
        /\ Len(sockets') > Len(sockets))
       => lastEvent' = "focus"
\* C12: when a socket that received the eviction notice closes, the page is
\* disconnected, the attempt counter is not incremented and no retry timer
\* is scheduled or pending; after that, a new socket is created only by the
\* window's focus listener.
C12_EvictedStaysPassive == [][C12_Step]_vars
\* The first socket opened, received the notice and closed; nothing pending.
C12_Witness ==
    /\ sockets = <<"closed">> /\ noticed = {1} /\ lastEvent = "close"
    /\ ~connected /\ ~connecting /\ ~wasReplaced
    /\ reconnectAttempts = 0 /\ timers = 0 /\ status = "Disconnected"

\* What C13 asks of every state and of every step.
C13_Inv ==
    /\ reconnectAttempts \in 0..maxReconnectAttempts
    /\ timers \in 0..1
C13_Step ==
    /\ \A i \in 1..MaxSockets :
         /\ (i \in 1..Len(sockets) /\ sockets[i] = "connecting"
                /\ sockets'[i] = "open")
            => reconnectAttempts' = 0
         /\ (Closes(i) /\ i \notin noticed)
            => IF reconnectAttempts < 5
               THEN /\ reconnectAttempts' = reconnectAttempts + 1
                    /\ timers' = timers + 1
               ELSE /\ reconnectAttempts' = reconnectAttempts
                    /\ timers' = timers
                    /\ status' = "Connection failed"
    /\ status = "Connection failed"
       => /\ status' = "Connection failed"
          /\ sockets' = sockets
          /\ timers' = 0
\* C13: the attempt counter stays in 0..5 and at most one retry timer is
\* pending; every open resets the counter; a close without notice increments
\* the counter and schedules one timer while the counter is below 5, and
\* otherwise shows "Connection failed", a state in which no socket is
\* created any more, by a timer or by the focus listener.
C13_BoundedRetry == []C13_Inv /\ [][C13_Step]_vars
\* The first attempt and five retries failed; the window then got the focus.
C13_Witness ==
    /\ Len(sockets) = 6 /\ \A i \in 1..6 : sockets[i] = "closed"
    /\ noticed = {}
    /\ reconnectAttempts = 5 /\ timers = 0
    /\ status = "Connection failed" /\ lastEvent = "focus"

\* What C14 asks of a step of the focus listener.
C14_Step ==
    lastEvent' = "focus" =>
        /\ Len(sockets') = Len(sockets) + 1
           <=> (~connected /\ ~connecting /\ reconnectAttempts = 0)
        /\ (timers > 0 \/ \E i \in 1..Len(sockets) : sockets[i] = "connecting")
           => sockets' = sockets
\* C14: the focus listener creates a socket exactly when the page is not
\* connected, not connecting and its attempt counter is 0; never while a
\* retry timer is pending or a socket is connecting.
C14_FocusGating == [][C14_Step]_vars
\* After an eviction the window got the focus and a second socket was made.
C14_Witness ==
    /\ sockets = <<"closed", "connecting">> /\ noticed = {1}
    /\ lastEvent = "focus" /\ connecting /\ reconnectAttempts = 0

\* C20: at most one socket of the page is connecting or open, and a socket
\* is created only when every earlier one is closed.
C20_SingleSocket ==
    /\ [](Cardinality(LiveSockets) <= 1)
    /\ [][Len(sockets') > Len(sockets) => LiveSockets = {}]_vars
\* The first socket failed, the retry timer made a second one, which opened.
C20_Witness ==
    /\ sockets = <<"closed", "open">> /\ noticed = {}
    /\ connected /\ timers = 0 /\ lastEvent = "open"
====
